---- MODULE Spec2Model ----
(***************************************************************************)
(* GKENetworkParamSet validation                                           *)
(* (pkg/controller/gkenetworkparamset/gnpcontroller_validations.go).       *)
(*                                                                         *)
(* Strings of the resource (names, VPCs, subnets, range names) are TLA+    *)
(* strings, "" being the empty Go string.  A network attachment name is a  *)
(* sequence of tokens, <<>> being the empty string, so that the regular    *)
(* expression can be matched against it.  A creation timestamp is a number *)
(* of seconds.  An error message is the tuple of its format and arguments. *)
(***************************************************************************)
EXTENDS Integers, Sequences, FiniteSets, TLC

\* ------------------------------------------------------------------ bounds
MaxRanges == 3      \* longest PodIPv4Ranges.RangeNames list
MaxTime == 3        \* creation timestamps are 1..MaxTime
MaxSegments == 7    \* most '/'-separated segments of an attachment name
MaxCreated == 2     \* most GKENetworkParamSets created in a reconciliation run

\* ------------------------------------------------------------------ values
Names == {"a", "b", "c"}
VPCs == {"", "default", "v1"}
Subnets == {"s1", "s2"}
RangeNames == {"r1", "r2"}
DeviceModes == {"", "netDevice"}
NetworkURLNames == {"default"}

SeqsUpTo(S, n) == UNION {[1..k -> S] : k \in 0..n}
Range(l) == {l[i] : i \in DOMAIN l}

\* Spec.PodIPv4Ranges is a pointer: nil, or a struct holding RangeNames.
NilRanges == [ptr |-> "nil", RangeNames |-> <<>>]
PodIPv4RangesValues ==
    {NilRanges} \cup {[ptr |-> "set", RangeNames |-> r] : r \in SeqsUpTo(RangeNames, MaxRanges)}

\* A well-formed attachment name, projects/x/regions/x/networkAttachments/x.
SomeAttachment ==
    <<"projects", "/", "x", "/", "regions", "/", "x", "/", "networkAttachments", "/", "x">>

GNP(name, att, vpc, sub, dm, pr, ts) ==
    [Name |-> name, NetworkAttachment |-> att, VPC |-> vpc, VPCSubnet |-> sub,
     DeviceMode |-> dm, PodIPv4Ranges |-> pr, CreationTimestamp |-> ts]

NoParams == GNP("", <<>>, "", "", "", NilRanges, 0)

\* Inputs of the pure field checks: every combination of set and unset fields.
FieldParamSets ==
    {GNP("a", att, vpc, sub, dm, pr, 1) :
        att \in {<<>>, SomeAttachment}, vpc \in VPCs, sub \in Subnets \cup {""},
        dm \in DeviceModes, pr \in PodIPv4RangesValues}

\* Inputs of the cloud validator.
CloudParamSets ==
    {GNP(n, <<>>, vpc, sub, dm, pr, ts) :
        n \in Names, vpc \in VPCs, sub \in Subnets, dm \in DeviceModes,
        pr \in PodIPv4RangesValues, ts \in 1..MaxTime}

\* The other GKENetworkParamSets of the cluster: device-mode ones on VPC v1.
Siblings ==
    {GNP(n, <<>>, "v1", sub, "netDevice", NilRanges, ts) :
        n \in Names, sub \in Subnets, ts \in 1..MaxTime}

UniqueNames(l) == \A i, j \in DOMAIN l : i # j => l[i].Name # l[j].Name

\* What Lister().List can return: the informer holds one object per name.
Listings ==
    UNION {{l \in [1..k -> Siblings] : UniqueNames(l)} : k \in 0..Cardinality(Names)}

\* Every order in which the objects of the set S can be listed.
Orderings(S) ==
    {l \in [1..Cardinality(S) -> S] : \A i, j \in DOMAIN l : i # j => l[i] # l[j]}

\* *compute.Subnetwork: only the names of its SecondaryIpRanges are read.
Subnetwork(ranges) == [ptr |-> "set", SecondaryIpRanges |-> ranges]
NilSubnetwork == [ptr |-> "nil", SecondaryIpRanges |-> {}]
Subnetworks == {Subnetwork(r) : r \in SUBSET RangeNames}

\* ------------------------------------------------------------- validations
\* gnpValidation and gnpNetworkCrossValidation: IsValid, ErrorReason, ErrorMessage.
Valid == [IsValid |-> TRUE, ErrorReason |-> "", ErrorMessage |-> <<>>]
Invalid(reason, message) ==
    [IsValid |-> FALSE, ErrorReason |-> reason, ErrorMessage |-> message]
\* The nil *gnpValidation returned next to an error, and before any return.
NilValidation == [IsValid |-> FALSE, ErrorReason |-> "nil", ErrorMessage |-> <<>>]

hasRangeNames(params) ==
    /\ params.PodIPv4Ranges.ptr # "nil"
    /\ Len(params.PodIPv4Ranges.RangeNames) > 0

\* validateFieldCombinations with the device-mode/secondary-range conflict checked first.
validateFieldCombinationsConflictFirst(params) ==
    LET hasAttachment == params.NetworkAttachment # <<>>
        hasVPC == params.VPC # ""
        hasSubnet == params.VPCSubnet # ""
        hasDeviceMode == params.DeviceMode # ""
        hasSecondaryRanges == hasRangeNames(params)
    IN  IF hasSecondaryRanges /\ hasDeviceMode
        THEN Invalid("DeviceModeCantBeUsedWithSecondaryRange",
                     <<"PodIPv4Ranges and DeviceMode can not be specified at the same time">>)
        ELSE IF ~hasAttachment /\ (~hasVPC \/ ~hasSubnet)
        THEN Invalid("GNPConfigInvalid",
                     <<"NetworkAttachment or (VPC + VPCSubnet) must be specified">>)
        ELSE IF hasAttachment
        THEN IF hasVPC \/ hasSubnet \/ hasDeviceMode \/ hasSecondaryRanges
             THEN Invalid("GNPConfigInvalid",
                          <<"When NetworkAttachment is specified, none of the following can be specified: (VPC, VPCSubnet, DeviceMode, PodIPv4Ranges)">>)
             ELSE Valid
        ELSE IF ~hasSecondaryRanges /\ ~hasDeviceMode
        THEN Invalid("SecondaryRangeAndDeviceModeUnspecified",
                     <<"One of PodIPV4Ranges or DeviceMode must be specified.">>)
        ELSE Valid

validateFieldCombinations(params) ==
    LET hasAttachment == params.NetworkAttachment # <<>>
        hasVPC == params.VPC # ""
        hasSubnet == params.VPCSubnet # ""
        hasDeviceMode == params.DeviceMode # ""
        hasSecondaryRanges == hasRangeNames(params)
    IN  IF ~hasAttachment /\ (~hasVPC \/ ~hasSubnet)
        THEN Invalid("GNPConfigInvalid",
                     <<"NetworkAttachment or (VPC + VPCSubnet) must be specified">>)
        ELSE IF hasAttachment
        THEN IF hasVPC \/ hasSubnet \/ hasDeviceMode \/ hasSecondaryRanges
             THEN Invalid("GNPConfigInvalid",
                          <<"When NetworkAttachment is specified, none of the following can be specified: (VPC, VPCSubnet, DeviceMode, PodIPv4Ranges)">>)
             ELSE Valid
        ELSE IF ~hasSecondaryRanges /\ ~hasDeviceMode
        THEN Invalid("SecondaryRangeAndDeviceModeUnspecified",
                     <<"One of PodIPV4Ranges or DeviceMode must be specified.">>)
        ELSE IF hasSecondaryRanges /\ hasDeviceMode
        THEN Invalid("DeviceModeCantBeUsedWithSecondaryRange",
                     <<"PodIPv4Ranges and DeviceMode can not be specified at the same time">>)
        ELSE Valid

\* A node's labels: whether NodePoolPodRangeLabelPrefix is a key, and its value.
Label(ok, v) == [ok |-> ok, v |-> v]
NoLabel == Label(FALSE, "")
NodeLabels == {NoLabel} \cup {Label(TRUE, v) : v \in RangeNames \cup {"", "r3"}}

\* Outcomes of Lister().Get: the object, or an error when there is none.
Got(p) == [err |-> "", gnp |-> p]
NoGet == [err |-> "not found", gnp |-> NoParams]
DefaultParamSets ==
    {GNP("default", <<>>, "default", sub, dm, pr, 1) :
        sub \in Subnets, dm \in DeviceModes, pr \in PodIPv4RangesValues}
GetGNPResults == {NoGet} \cup {Got(p) : p \in DefaultParamSets}

\* network.Spec.Type: L3NetworkType, DeviceNetworkType, or unset.
NetworkTypes == {"L3", "Device", ""}

\* metav1.Condition: the fields toCondition sets; the zero value has them empty.
Condition(type, status, reason, message) ==
    [Type |-> type, Status |-> status, Reason |-> reason, Message |-> message]
NoCondition == Condition("", "", "", <<>>)

\* ------------------------------------------------------------------- state
VARIABLES
    op,          \* the function that is running or has returned ("" when none)
    pc,          \* "idle", the next check of validateGKENetworkParamSet, or "done"
    params,      \* the *GKENetworkParamSet argument
    subnet,      \* the *compute.Subnetwork argument, or the one returned
    fetched,     \* outcome of gceCloud.GetSubnetwork, "uncalled" until it is called
    onXPN,       \* gceCloud.OnXPN()
    network,     \* outcome of gceCloud.GetNetwork, "uncalled" until it is called
    networkURL,  \* outcome of cloud.ParseResourceURL(gceCloud.NetworkURL())
    listed,      \* outcome of Lister().List: "uncalled", "ok" or "err"
    gnpList,     \* the slice List returned
    validation,  \* the returned validation
    err,         \* the returned error, "" for nil
    networkType, \* network.Spec.Type of crossValidateNetworkAndGnp's network
    netAttachment, \* the string given to validateNetworkAttachment
    node,        \* the pod-range label of nonDefaultParamsPodRanges' node
    defaultGNP,  \* outcome of Lister().Get(DefaultPodNetworkName)
    hasNew,      \* the boolean nonDefaultParamsPodRanges returned
    originalParams, \* the second *GKENetworkParamSet of samePodIPv4Ranges
    same,        \* the boolean samePodIPv4Ranges returned
    condition,   \* the metav1.Condition toCondition returned
    store,       \* the GKENetworkParamSets of the cluster
    informer,    \* the informer's cache of them
    status,      \* status of the Ready condition written for each name, "" when none
    fresh        \* whether that status was computed from a listing of the whole store

callVars ==
    <<op, pc, params, subnet, fetched, onXPN, network, networkURL, listed, gnpList,
      validation, err>>

argVars ==
    <<networkType, netAttachment, node, defaultGNP, hasNew, originalParams, same, condition>>

clusterVars == <<store, informer, status, fresh>>

vars == <<callVars, argVars, clusterVars>>

Init ==
    /\ op = ""
    /\ pc = "idle"
    /\ params = NoParams
    /\ subnet = NilSubnetwork
    /\ fetched = "uncalled"
    /\ onXPN = FALSE
    /\ network = "uncalled"
    /\ networkURL = "uncalled"
    /\ listed = "uncalled"
    /\ gnpList = <<>>
    /\ validation = NilValidation
    /\ err = ""
    /\ networkType = ""
    /\ netAttachment = <<>>
    /\ node = NoLabel
    /\ defaultGNP = NoGet
    /\ hasNew = FALSE
    /\ originalParams = NoParams
    /\ same = FALSE
    /\ condition = NoCondition
    /\ store = {}
    /\ informer = {}
    /\ status = [n \in Names |-> ""]
    /\ fresh = [n \in Names |-> FALSE]

\* A call of the function o begins: nothing has been fetched or returned yet.
Begin(o, p, s, xpn, next) ==
    /\ op' = o
    /\ pc' = next
    /\ params' = p
    /\ subnet' = s
    /\ fetched' = "uncalled"
    /\ onXPN' = xpn
    /\ network' = "uncalled"
    /\ networkURL' = "uncalled"
    /\ listed' = "uncalled"
    /\ gnpList' = <<>>
    /\ validation' = NilValidation
    /\ err' = ""

\* An atomic call of the function o, returning v.
Call(o, p, v) ==
    /\ op' = o
    /\ pc' = "done"
    /\ params' = p
    /\ validation' = v
    /\ UNCHANGED <<subnet, fetched, onXPN, network, networkURL, listed, gnpList, err>>

ValidateFieldCombinations ==
    /\ pc = "idle"
    /\ \E p \in FieldParamSets : Call("validateFieldCombinations", p, validateFieldCombinations(p))
    /\ UNCHANGED <<argVars, clusterVars>>

NextFields == ValidateFieldCombinations

SpecFields == Init /\ [][NextFields]_vars

\* --------------------------------------------- validateGKENetworkParamSet
\* Outcomes of gceCloud.GetNetwork and gceCloud.GetSubnetwork: the object, a nil
\* object without error, a not-found error of the API, or a failed call.
GetResults == {"found", "nil", "notFound", "transportErr"}
GetErr(r) == r \in {"notFound", "transportErr"}
GetNil(r) == r # "found"

\* Outcomes of cloud.ParseResourceURL(gceCloud.NetworkURL()): Key.Name or an error.
ParseResults == NetworkURLNames \cup {"parseErr"}

\* Outcomes of Lister().List: the items, or an error.
ListError == [err |-> "list error", items |-> <<>>]
ListResults(lists) == {[err |-> "", items |-> l] : l \in lists} \cup {ListError}

Return(v, e) ==
    /\ validation' = v
    /\ err' = e
    /\ pc' = "done"

Goto(next) ==
    /\ pc' = next
    /\ UNCHANGED <<validation, err>>

\* The call: any parameter set, any fetched subnet, shared-VPC mode or not.
ValidateGKENetworkParamSet ==
    /\ pc = "idle"
    /\ \E p \in CloudParamSets, s \in Subnetworks, xpn \in BOOLEAN :
        Begin("validateGKENetworkParamSet", p, s, xpn, "vpc")
    /\ UNCHANGED <<argVars, clusterVars>>

CheckVPCSpecified ==
    /\ pc = "vpc"
    /\ IF params.VPC = ""
       THEN Return(Invalid("VPCNotFound", <<"VPC not specified">>), "")
       ELSE Goto("network")
    /\ UNCHANGED <<op, params, subnet, fetched, onXPN, network, networkURL, listed, gnpList>>
    /\ UNCHANGED <<argVars, clusterVars>>

\* CheckVPCExists without the shared-VPC exemption.
CheckVPCExistsOnXPNToo(results) ==
    /\ pc = "network"
    /\ \E r \in results :
          /\ network' = r
          /\ IF GetErr(r) \/ GetNil(r)
             THEN Return(Invalid("VPCNotFound", <<"VPC: %s not found", params.VPC>>), "")
             ELSE Goto("unspecified")
    /\ UNCHANGED <<op, params, subnet, fetched, onXPN, networkURL, listed, gnpList>>
    /\ UNCHANGED <<argVars, clusterVars>>

CheckVPCExists(results) ==
    /\ pc = "network"
    /\ IF ~onXPN
       THEN \E r \in results :
               /\ network' = r
               /\ IF GetErr(r) \/ GetNil(r)
                  THEN Return(Invalid("VPCNotFound", <<"VPC: %s not found", params.VPC>>), "")
                  ELSE Goto("unspecified")
       ELSE /\ network' = network
            /\ Goto("unspecified")
    /\ UNCHANGED <<op, params, subnet, fetched, onXPN, networkURL, listed, gnpList>>
    /\ UNCHANGED <<argVars, clusterVars>>

isSecondaryRangeSpecified == hasRangeNames(params)
isDeviceModeSpecified == params.DeviceMode # ""

CheckUnspecified ==
    /\ pc = "unspecified"
    /\ IF ~isSecondaryRangeSpecified /\ ~isDeviceModeSpecified
       THEN Return(Invalid("SecondaryRangeAndDeviceModeUnspecified",
                           <<"SecondaryRange and DeviceMode are unspecified. One must be specified.">>), "")
       ELSE Goto("ranges")
    /\ UNCHANGED <<op, params, subnet, fetched, onXPN, network, networkURL, listed, gnpList>>
    /\ UNCHANGED <<argVars, clusterVars>>

\* The loop over RangeNames from index i on: the first name that is not the
\* RangeName of a secondary range of the subnet, "" when all are found.
RECURSIVE rangeNotFound(_, _, _)
rangeNotFound(rangeNames, sub, i) ==
    IF i > Len(rangeNames) THEN ""
    ELSE IF rangeNames[i] \in sub.SecondaryIpRanges
         THEN rangeNotFound(rangeNames, sub, i + 1)
         ELSE rangeNames[i]

CheckSecondaryRanges ==
    /\ pc = "ranges"
    /\ IF isSecondaryRangeSpecified /\ ~isDeviceModeSpecified
       THEN LET rangeName == rangeNotFound(params.PodIPv4Ranges.RangeNames, subnet, 1)
            IN  IF rangeName # ""
                THEN Return(Invalid("SecondaryRangeNotFound",
                                    <<"secondary range: %s not found in subnet: %s",
                                      rangeName, params.VPCSubnet>>), "")
                ELSE Goto("both")
       ELSE Goto("both")
    /\ UNCHANGED <<op, params, subnet, fetched, onXPN, network, networkURL, listed, gnpList>>
    /\ UNCHANGED <<argVars, clusterVars>>

CheckBothSpecified ==
    /\ pc = "both"
    /\ IF isSecondaryRangeSpecified /\ isDeviceModeSpecified
       THEN Return(Invalid("DeviceModeCantBeUsedWithSecondaryRange",
                           <<"deviceMode and secondary range can not be specified at the same time">>), "")
       ELSE Goto("defaultVPC")
    /\ UNCHANGED <<op, params, subnet, fetched, onXPN, network, networkURL, listed, gnpList>>
    /\ UNCHANGED <<argVars, clusterVars>>

CheckDefaultVPC(results) ==
    /\ pc = "defaultVPC"
    /\ IF isDeviceModeSpecified
       THEN \E r \in results :
               /\ networkURL' = r
               /\ IF r = "parseErr"
                  THEN Return(NilValidation, "parse error")
                  ELSE IF params.VPC = r
                  THEN Return(Invalid("DeviceModeCantUseDefaultVPC",
                                      <<"GNP with deviceMode can't reference the default VPC">>), "")
                  ELSE Goto("list")
       ELSE /\ networkURL' = networkURL
            /\ Goto("list")
    /\ UNCHANGED <<op, params, subnet, fetched, onXPN, network, listed, gnpList>>
    /\ UNCHANGED <<argVars, clusterVars>>

isDifferentGNP(p, otherGNP) == p.Name # otherGNP.Name
isMatchingSubnet(p, otherGNP) == p.VPCSubnet = otherGNP.VPCSubnet
\* isParamsNewer with the comparison turned round (Before for After).
isParamsOlder(p, otherGNP) == p.CreationTimestamp < otherGNP.CreationTimestamp

\* Time.After: strictly later.
isParamsNewer(p, otherGNP) == p.CreationTimestamp > otherGNP.CreationTimestamp

\* The loop over gnpList from index i on.
RECURSIVE scanGNPList(_, _, _)
scanGNPList(p, list, i) ==
    IF i > Len(list) THEN Valid
    ELSE LET otherGNP == list[i]
         IN  IF isDifferentGNP(p, otherGNP) /\ isMatchingSubnet(p, otherGNP)
                /\ isParamsNewer(p, otherGNP)
             THEN Invalid("DeviceModeSubnetAlreadyInUse",
                          <<"GNP with deviceMode can't reference a subnet already in use. Subnet '%s' is already in use by '%s'",
                            otherGNP.VPC, otherGNP.Name>>)
             ELSE scanGNPList(p, list, i + 1)

\* CheckSubnetInUse with the listing consulted whatever the deviceMode.
CheckSubnetInUseAnyMode(results) ==
    /\ pc = "list"
    /\ \E r \in results :
          /\ gnpList' = r.items
          /\ IF r.err # ""
             THEN listed' = "err" /\ Return(NilValidation, r.err)
             ELSE listed' = "ok" /\ Return(scanGNPList(params, r.items, 1), "")
    /\ UNCHANGED <<op, params, subnet, fetched, onXPN, network, networkURL>>
    /\ UNCHANGED <<argVars, clusterVars>>

CheckSubnetInUse(results) ==
    /\ pc = "list"
    /\ IF isDeviceModeSpecified
       THEN \E r \in results :
               /\ gnpList' = r.items
               /\ IF r.err # ""
                  THEN listed' = "err" /\ Return(NilValidation, r.err)
                  ELSE listed' = "ok" /\ Return(scanGNPList(params, r.items, 1), "")
       ELSE /\ UNCHANGED <<listed, gnpList>>
            /\ Return(Valid, "")
    /\ UNCHANGED <<op, params, subnet, fetched, onXPN, network, networkURL>>
    /\ UNCHANGED <<argVars, clusterVars>>

\* ------------------------------------------------------ getAndValidateSubnet
\* The function's two results for the outcome r of GetSubnetwork, which
\* returns the subnetwork s when it finds one.
getAndValidateSubnet(p, r, s) ==
    IF p.VPCSubnet = ""
    THEN [subnet |-> NilSubnetwork,
          validation |-> Invalid("SubnetNotFound", <<"subnet not specified">>)]
    ELSE IF GetErr(r) \/ GetNil(r)
    THEN [subnet |-> NilSubnetwork,
          validation |-> Invalid("SubnetNotFound",
                                 <<"subnet: %s not found in VPC: %s", p.VPCSubnet, p.VPC>>)]
    ELSE [subnet |-> s, validation |-> Valid]

SubnetParamSets ==
    {GNP("a", <<>>, vpc, sub, dm, NilRanges, 1) :
        vpc \in VPCs, sub \in Subnets \cup {""}, dm \in DeviceModes}

GetAndValidateSubnet ==
    /\ pc = "idle"
    /\ \E p \in SubnetParamSets, r \in GetResults, s \in Subnetworks :
        LET got == getAndValidateSubnet(p, r, s)
        IN  /\ op' = "getAndValidateSubnet"
            /\ pc' = "done"
            /\ params' = p
            /\ fetched' = IF p.VPCSubnet = "" THEN "uncalled" ELSE r
            /\ subnet' = got.subnet
            /\ validation' = got.validation
            /\ UNCHANGED <<onXPN, network, networkURL, listed, gnpList, err>>
    /\ UNCHANGED <<argVars, clusterVars>>

Next ==
    \/ ValidateGKENetworkParamSet
    \/ CheckVPCSpecified
    \/ CheckVPCExists(GetResults)
    \/ CheckUnspecified
    \/ CheckSecondaryRanges
    \/ CheckBothSpecified
    \/ CheckDefaultVPC(ParseResults)
    \/ CheckSubnetInUse(ListResults(Listings))
    \/ GetAndValidateSubnet

Spec == Init /\ [][Next]_vars

\* ------------------------------------------------ crossValidateNetworkAndGnp
\* crossValidateNetworkAndGnp with the Device rule ahead of the attachment rule.
crossValidateDeviceFirst(type, p) ==
    IF type = "Device" /\ p.DeviceMode = ""
    THEN Invalid("DeviceModeMissing",
                 <<"Device type network requires device mode to be specified in params">>)
    ELSE IF type = "L3" /\ p.VPC # "" /\ p.VPCSubnet # "" /\ ~hasRangeNames(p)
    THEN Invalid("L3SecondaryMissing",
                 <<"L3 type network referring to params with (VPC + VPCSUbnet) pair requires secondary range to be specified in params">>)
    ELSE IF type # "L3" /\ p.NetworkAttachment # <<>>
    THEN Invalid("NetworkAttachmentUnsupported",
                 <<"NetworkAttachment is only allowed for L3 type networks.">>)
    ELSE Valid

\* crossValidateNetworkAndGnp with the L3 rule asking for VPC or VPCSubnet.
crossValidateL3Either(type, p) ==
    IF type = "L3" /\ (p.VPC # "" \/ p.VPCSubnet # "") /\ ~hasRangeNames(p)
    THEN Invalid("L3SecondaryMissing",
                 <<"L3 type network referring to params with (VPC + VPCSUbnet) pair requires secondary range to be specified in params">>)
    ELSE IF type # "L3" /\ p.NetworkAttachment # <<>>
    THEN Invalid("NetworkAttachmentUnsupported",
                 <<"NetworkAttachment is only allowed for L3 type networks.">>)
    ELSE IF type = "Device" /\ p.DeviceMode = ""
    THEN Invalid("DeviceModeMissing",
                 <<"Device type network requires device mode to be specified in params">>)
    ELSE Valid

crossValidateNetworkAndGnp(type, p) ==
    LET isSecondaryRangeSpecifiedP == hasRangeNames(p)
        isVPCSpecified == p.VPC # ""
        isVPCSubnetSpecified == p.VPCSubnet # ""
        isNetworkAttachmentSpecified == p.NetworkAttachment # <<>>
    IN  IF type = "L3" /\ isVPCSpecified /\ isVPCSubnetSpecified /\ ~isSecondaryRangeSpecifiedP
        THEN Invalid("L3SecondaryMissing",
                     <<"L3 type network referring to params with (VPC + VPCSUbnet) pair requires secondary range to be specified in params">>)
        ELSE IF type # "L3" /\ isNetworkAttachmentSpecified
        THEN Invalid("NetworkAttachmentUnsupported",
                     <<"NetworkAttachment is only allowed for L3 type networks.">>)
        ELSE IF type = "Device" /\ p.DeviceMode = ""
        THEN Invalid("DeviceModeMissing",
                     <<"Device type network requires device mode to be specified in params">>)
        ELSE Valid

CrossValidateNetworkAndGnp ==
    /\ pc = "idle"
    /\ \E t \in NetworkTypes, p \in FieldParamSets :
          /\ Call("crossValidateNetworkAndGnp", p, crossValidateNetworkAndGnp(t, p))
          /\ networkType' = t
    /\ UNCHANGED <<netAttachment, node, defaultGNP, hasNew, originalParams, same, condition,
                 clusterVars>>

NextCross == CrossValidateNetworkAndGnp

SpecCross == Init /\ [][NextCross]_vars

\* ------------------------------------------------ nonDefaultParamsPodRanges
\* getParamsPodRanges returning the empty list, without an error, for a
\* parameter set that has no range names.
getParamsPodRangesNoError(get) ==
    IF get.err # "" THEN [ranges |-> <<>>, err |-> get.err]
    ELSE [ranges |-> get.gnp.PodIPv4Ranges.RangeNames, err |-> ""]

\* The function's two results for the outcome get of Lister().Get(paramsName).
getParamsPodRanges(get) ==
    IF get.err # "" THEN [ranges |-> <<>>, err |-> get.err]
    ELSE IF hasRangeNames(get.gnp)
         THEN [ranges |-> get.gnp.PodIPv4Ranges.RangeNames, err |-> ""]
         ELSE [ranges |-> <<>>, err |-> "params does not have PodIPv4Ranges"]

\* slices.Contains
Contains(list, v) == \E i \in DOMAIN list : list[i] = v

nonDefaultParamsPodRanges(label, get) ==
    LET got == getParamsPodRanges(get)
    IN  IF got.err # "" THEN FALSE
        ELSE IF label.ok /\ label.v # "" /\ ~Contains(got.ranges, label.v) THEN TRUE
        ELSE FALSE

NonDefaultParamsPodRanges ==
    /\ pc = "idle"
    /\ \E label \in NodeLabels, get \in GetGNPResults :
          /\ op' = "nonDefaultParamsPodRanges"
          /\ pc' = "done"
          /\ node' = label
          /\ defaultGNP' = get
          /\ hasNew' = nonDefaultParamsPodRanges(label, get)
    /\ UNCHANGED <<params, subnet, fetched, onXPN, network, networkURL, listed, gnpList,
                   validation, err, networkType, netAttachment, originalParams, same,
                   condition, clusterVars>>

NextNode == NonDefaultParamsPodRanges

SpecNode == Init /\ [][NextNode]_vars

\* ------------------------------------------------- validateNetworkAttachment
\* A string is the sequence of its tokens: "/" and slash-free pieces, among
\* them the three words of the pattern.  A regular expression is the sequence
\* of its elements: a literal token, or "[^/]+".
networkAttachmentRE ==
    <<"projects", "/", "[^/]+", "/", "regions", "/", "[^/]+", "/",
      "networkAttachments", "/", "[^/]+">>

\* Whether the elements of re from the k-th on match s from position i on.
RECURSIVE matchHere(_, _, _, _)
matchHere(re, k, s, i) ==
    IF k > Len(re) THEN TRUE
    ELSE IF re[k] = "[^/]+"
    THEN \E j \in i..Len(s) :
            /\ \A m \in i..j : s[m] # "/"
            /\ matchHere(re, k + 1, s, j + 1)
    ELSE /\ i <= Len(s)
         /\ s[i] = re[k]
         /\ matchHere(re, k + 1, s, i + 1)

\* regexp.MatchString: whether s contains any match of re.
MatchString(re, s) == \E i \in 1..Len(s) + 1 : matchHere(re, 1, s, i)

validateNetworkAttachment(name) ==
    IF ~MatchString(networkAttachmentRE, name)
    THEN Invalid("NetworkAttachmentInvalid",
                 <<"invalid network attachment name: %q. Must match projects/PROJECT_ID/regions/REGION/networkAttachments/NETWORK_ATTACHMENT", name>>)
    ELSE Valid

\* The strings tried: up to MaxSegments segments joined by "/", a segment
\* being empty, a word of the pattern, or some other piece.
Segments == {<<>>, <<"projects">>, <<"regions">>, <<"networkAttachments">>, <<"x">>}

RECURSIVE Join(_)
Join(segs) ==
    IF segs = <<>> THEN <<>>
    ELSE IF Len(segs) = 1 THEN segs[1]
    ELSE segs[1] \o <<"/">> \o Join(Tail(segs))

ValidateNetworkAttachment ==
    /\ pc = "idle"
    /\ \E segs \in SeqsUpTo(Segments, MaxSegments) :
          /\ op' = "validateNetworkAttachment"
          /\ pc' = "done"
          /\ netAttachment' = Join(segs)
          /\ validation' = validateNetworkAttachment(Join(segs))
    /\ UNCHANGED <<params, subnet, fetched, onXPN, network, networkURL, listed, gnpList, err,
                   networkType, node, defaultGNP, hasNew, originalParams, same, condition,
                   clusterVars>>

NextAttachment == ValidateNetworkAttachment

SpecAttachment == Init /\ [][NextAttachment]_vars

\* -------------------------------------------------------- samePodIPv4Ranges
\* sameStringSlice comparing the sets of elements of two lists of one length.
sameStringSliceAsSets(x, y) == Len(x) = Len(y) /\ Range(x) = Range(y)

\* diff[k]++ on the map diff, a missing key counting as 0.
Increment(diff, k) ==
    [j \in DOMAIN diff \cup {k} |->
        IF j = k THEN (IF k \in DOMAIN diff THEN diff[k] ELSE 0) + 1 ELSE diff[j]]

\* The first loop from index i on: the count of each element of x.
RECURSIVE countElements(_, _, _)
countElements(x, i, diff) ==
    IF i > Len(x) THEN diff
    ELSE countElements(x, i + 1, Increment(diff, x[i]))

\* The second loop from index i on, and the return after it.
RECURSIVE cancelElements(_, _, _)
cancelElements(y, i, diff) ==
    IF i > Len(y) THEN DOMAIN diff = {}
    ELSE IF y[i] \notin DOMAIN diff THEN FALSE
    ELSE IF diff[y[i]] - 1 = 0
         THEN cancelElements(y, i + 1, [j \in DOMAIN diff \ {y[i]} |-> diff[j]])
         ELSE cancelElements(y, i + 1, [diff EXCEPT ![y[i]] = @ - 1])

sameStringSlice(x, y) ==
    IF Len(x) # Len(y) THEN FALSE
    ELSE cancelElements(y, 1, countElements(x, 1, <<>>))

samePodIPv4Ranges(p, original) ==
    IF ~hasRangeNames(p) /\ ~hasRangeNames(original) THEN TRUE
    ELSE IF hasRangeNames(p) /\ hasRangeNames(original)
    THEN sameStringSlice(p.PodIPv4Ranges.RangeNames, original.PodIPv4Ranges.RangeNames)
    ELSE FALSE

\* The parameter sets compared: only their PodIPv4Ranges are read.
RangeParamSets == {GNP("a", <<>>, "v1", "s1", "", pr, 1) : pr \in PodIPv4RangesValues}

SamePodIPv4Ranges ==
    /\ pc = "idle"
    /\ \E p \in RangeParamSets, original \in RangeParamSets :
          /\ op' = "samePodIPv4Ranges"
          /\ pc' = "done"
          /\ params' = p
          /\ originalParams' = original
          /\ same' = samePodIPv4Ranges(p, original)
    /\ UNCHANGED <<subnet, fetched, onXPN, network, networkURL, listed, gnpList, validation,
                   err, networkType, netAttachment, node, defaultGNP, hasNew, condition,
                   clusterVars>>

NextSame == SamePodIPv4Ranges

SpecSame == Init /\ [][NextSame]_vars

\* -------------------------------------------------------------- toCondition
\* The constants of networkv1 are written by their names.
\* gnpValidation.toCondition with the message copied for a valid verdict too.
gnpValidation_toConditionWithMessage(val) ==
    IF val.IsValid
    THEN Condition("GKENetworkParamSetStatusReady", "True", "GNPReady", val.ErrorMessage)
    ELSE Condition("GKENetworkParamSetStatusReady", "False", val.ErrorReason, val.ErrorMessage)

gnpValidation_toCondition(val) ==
    IF val.IsValid
    THEN Condition("GKENetworkParamSetStatusReady", "True", "GNPReady", <<>>)
    ELSE Condition("GKENetworkParamSetStatusReady", "False", val.ErrorReason, val.ErrorMessage)

gnpNetworkCrossValidation_toCondition(val) ==
    IF val.IsValid
    THEN Condition("NetworkConditionStatusParamsReady", "True", "GNPParamsReady", <<>>)
    ELSE Condition("NetworkConditionStatusParamsReady", "False", val.ErrorReason,
                   val.ErrorMessage)

\* The verdicts converted: any combination of the three fields of the struct.
ErrorMessages ==
    {<<>>, <<"subnet not specified">>, <<"VPC is not specified">>,
     <<"One of PodIPV4Ranges or DeviceMode must be specified.">>,
     <<"NetworkAttachment is only allowed for L3 type networks.">>,
     <<"Device type network requires device mode to be specified in params">>}
GNPReasons ==
    {"", "GNPConfigInvalid", "SubnetNotFound", "VPCNotFound", "SecondaryRangeNotFound",
     "DeviceModeSubnetAlreadyInUse"}
CrossReasons == {"", "L3SecondaryMissing", "NetworkAttachmentUnsupported", "DeviceModeMissing"}
Verdicts(reasons) ==
    {[IsValid |-> v, ErrorReason |-> r, ErrorMessage |-> msg] :
        v \in BOOLEAN, r \in reasons, msg \in ErrorMessages}

ToCondition(o, verdicts) ==
    /\ pc = "idle"
    /\ \E val \in verdicts :
          /\ op' = o
          /\ pc' = "done"
          /\ validation' = val
          /\ condition' = IF o = "gnpValidation.toCondition"
                          THEN gnpValidation_toCondition(val)
                          ELSE gnpNetworkCrossValidation_toCondition(val)
    /\ UNCHANGED <<params, subnet, fetched, onXPN, network, networkURL, listed, gnpList, err,
                   networkType, netAttachment, node, defaultGNP, hasNew, originalParams, same,
                   clusterVars>>

NextCondition ==
    \/ ToCondition("gnpValidation.toCondition", Verdicts(GNPReasons))
    \/ ToCondition("gnpNetworkCrossValidation.toCondition", Verdicts(CrossReasons))

SpecCondition == Init /\ [][NextCondition]_vars

\* ------------------------------------------------------------ reconciliation
\* The cluster around the validator: parameter sets are created, the informer
\* learns of them one by one, and the controller validates a cached parameter
\* set against the informer's listing and writes the Ready condition.  The
\* cloud is healthy: VPC v1 exists and is not the default network.
CreateGNP ==
    /\ Cardinality(store) < MaxCreated
    /\ \E g \in Siblings :
          /\ \A o \in store : o.Name # g.Name
          /\ store' = store \cup {g}
    /\ fresh' = [n \in Names |-> FALSE]
    /\ UNCHANGED <<callVars, argVars, informer, status>>

InformerSync ==
    /\ \E g \in store \ informer : informer' = informer \cup {g}
    /\ UNCHANGED <<callVars, argVars, store, status, fresh>>

Reconcile ==
    /\ pc = "idle"
    /\ \E g \in informer : Begin("validateGKENetworkParamSet", g, Subnetwork({}), FALSE, "vpc")
    /\ UNCHANGED <<argVars, clusterVars>>

\* The call has returned: without an error the verdict becomes the status.
UpdateStatus ==
    /\ pc = "done"
    /\ op = "validateGKENetworkParamSet"
    /\ IF err = ""
       THEN /\ status' = [status EXCEPT ![params.Name] =
                            IF validation.IsValid THEN "True" ELSE "False"]
            /\ fresh' = [fresh EXCEPT ![params.Name] = (Range(gnpList) = store)]
       ELSE UNCHANGED <<status, fresh>>
    /\ op' = ""
    /\ pc' = "idle"
    /\ params' = NoParams
    /\ subnet' = NilSubnetwork
    /\ network' = "uncalled"
    /\ networkURL' = "uncalled"
    /\ listed' = "uncalled"
    /\ gnpList' = <<>>
    /\ validation' = NilValidation
    /\ err' = ""
    /\ UNCHANGED <<fetched, onXPN, argVars, store, informer>>

NextReconcile ==
    \/ CreateGNP
    \/ InformerSync
    \/ Reconcile
    \/ CheckVPCSpecified
    \/ CheckVPCExists({"found"})
    \/ CheckUnspecified
    \/ CheckSecondaryRanges
    \/ CheckBothSpecified
    \/ CheckDefaultVPC(NetworkURLNames)
    \/ CheckSubnetInUse({[err |-> "", items |-> l] : l \in Orderings(informer)})
    \/ UpdateStatus

SpecReconcile == Init /\ [][NextReconcile]_vars

\* ------------------------------------------------------------------ claims
Returned(o) == op = o /\ pc = "done"

\* The fields of the parameter set in the words of the specification.
AttachmentSet == params.NetworkAttachment # <<>>
VPCSet == params.VPC # ""
SubnetSet == params.VPCSubnet # ""
DeviceModeSet == params.DeviceMode # ""
PodRangesNonEmpty ==
    params.PodIPv4Ranges.ptr = "set" /\ params.PodIPv4Ranges.RangeNames # <<>>

\* C1: validateFieldCombinations returns the verdict of the first failing check
\* in the order (1) minimum fields -> GNPConfigInvalid, (2) attachment with any
\* other field -> GNPConfigInvalid, an attachment alone being valid, (3) neither
\* device mode nor ranges -> SecondaryRangeAndDeviceModeUnspecified, (4) both ->
\* DeviceModeCantBeUsedWithSecondaryRange, otherwise valid; a valid verdict
\* implies exactly one of the two legal shapes; an empty range list is absent.
C1_FieldCombinationOrder ==
    Returned("validateFieldCombinations") =>
        LET check1 == ~(AttachmentSet \/ (VPCSet /\ SubnetSet))
            check2 == AttachmentSet /\ (VPCSet \/ SubnetSet \/ DeviceModeSet \/ PodRangesNonEmpty)
            check3 == ~DeviceModeSet /\ ~PodRangesNonEmpty
            check4 == DeviceModeSet /\ PodRangesNonEmpty
            attachmentOnly ==
                AttachmentSet /\ ~VPCSet /\ ~SubnetSet /\ ~DeviceModeSet /\ ~PodRangesNonEmpty
            vpcMode ==
                /\ VPCSet /\ SubnetSet /\ ~AttachmentSet
                /\ (DeviceModeSet /\ ~PodRangesNonEmpty) \/ (~DeviceModeSet /\ PodRangesNonEmpty)
        IN  /\ validation # NilValidation
            /\ check1 => ~validation.IsValid /\ validation.ErrorReason = "GNPConfigInvalid"
            /\ ~check1 /\ check2 =>
                   ~validation.IsValid /\ validation.ErrorReason = "GNPConfigInvalid"
            /\ ~check1 /\ AttachmentSet /\ ~check2 => validation.IsValid
            /\ ~check1 /\ ~AttachmentSet /\ check3 =>
                   /\ ~validation.IsValid
                   /\ validation.ErrorReason = "SecondaryRangeAndDeviceModeUnspecified"
            /\ ~check1 /\ ~AttachmentSet /\ ~check3 /\ check4 =>
                   /\ ~validation.IsValid
                   /\ validation.ErrorReason = "DeviceModeCantBeUsedWithSecondaryRange"
            /\ ~check1 /\ ~AttachmentSet /\ ~check3 /\ ~check4 => validation.IsValid
            /\ validation.IsValid => (attachmentOnly /\ ~vpcMode) \/ (vpcMode /\ ~attachmentOnly)

\* C1 witness: an attachment together with both device mode and ranges is
\* rejected by check 2, not check 4.
C1_Witness ==
    /\ Returned("validateFieldCombinations")
    /\ AttachmentSet /\ DeviceModeSet /\ PodRangesNonEmpty
    /\ validation.ErrorReason = "GNPConfigInvalid"


\* C2: a failed cloud call or listing is returned as an error, never as a
\* verdict: after a failed GetNetwork or List validateGKENetworkParamSet
\* returns an error and no validation, and after a failed GetSubnetwork
\* getAndValidateSubnet returns no SubnetNotFound verdict.
C2_TransportErrorPropagates ==
    /\ Returned("validateGKENetworkParamSet") /\ (network = "transportErr" \/ listed = "err")
          => err # "" /\ validation = NilValidation
    /\ Returned("getAndValidateSubnet") /\ fetched = "transportErr"
          => validation.ErrorReason # "SubnetNotFound"

\* The siblings of the listing that conflict with p: another name, the same
\* subnet, created strictly earlier.
OlderOnSubnet(p, list) ==
    {o \in Range(list) :
        /\ o.Name # p.Name
        /\ o.VPCSubnet = p.VPCSubnet
        /\ o.CreationTimestamp < p.CreationTimestamp}

\* The validated parameter set has device mode, is in the listing, and the
\* validator got as far as scanning the listing (checks 1-6 passed).
ScannedInListing ==
    /\ Returned("validateGKENetworkParamSet")
    /\ listed = "ok"
    /\ params.DeviceMode # ""
    /\ params \in Range(gnpList)

\* C3 as stated: for X older than Y, two device-mode parameter sets of the
\* listing on one subnet, validating Y yields DeviceModeSubnetAlreadyInUse
\* naming X, and validating X yields valid.
C3_AsStated ==
    /\ ScannedInListing =>
          \A X \in Range(gnpList) :
              (/\ X.Name # params.Name /\ X.DeviceMode # ""
               /\ X.VPCSubnet = params.VPCSubnet
               /\ X.CreationTimestamp < params.CreationTimestamp)
              => /\ validation.ErrorReason = "DeviceModeSubnetAlreadyInUse"
                 /\ validation.ErrorMessage[3] = X.Name
    /\ ScannedInListing =>
          \A Y \in Range(gnpList) :
              (/\ Y.Name # params.Name /\ Y.DeviceMode # ""
               /\ Y.VPCSubnet = params.VPCSubnet
               /\ params.CreationTimestamp < Y.CreationTimestamp)
              => validation.IsValid

\* C3 amended: validating Y yields DeviceModeSubnetAlreadyInUse naming one of
\* the listed parameter sets of another name, on the same subnet and strictly
\* older than Y (X when it is the only one); validating X yields valid when no
\* listed parameter set of another name on the same subnet is strictly older
\* than X, and DeviceModeSubnetAlreadyInUse otherwise.
C3_DeviceModeUniqueness ==
    /\ ScannedInListing =>
          \A X \in Range(gnpList) :
              (/\ X.Name # params.Name /\ X.DeviceMode # ""
               /\ X.VPCSubnet = params.VPCSubnet
               /\ X.CreationTimestamp < params.CreationTimestamp)
              => /\ ~validation.IsValid
                 /\ validation.ErrorReason = "DeviceModeSubnetAlreadyInUse"
                 /\ validation.ErrorMessage[3] \in {o.Name : o \in OlderOnSubnet(params, gnpList)}
                 /\ OlderOnSubnet(params, gnpList) = {X} => validation.ErrorMessage[3] = X.Name
    /\ ScannedInListing =>
          \A Y \in Range(gnpList) :
              (/\ Y.Name # params.Name /\ Y.DeviceMode # ""
               /\ Y.VPCSubnet = params.VPCSubnet
               /\ params.CreationTimestamp < Y.CreationTimestamp)
              => IF OlderOnSubnet(params, gnpList) = {}
                 THEN validation.IsValid
                 ELSE validation.ErrorReason = "DeviceModeSubnetAlreadyInUse"

\* C3 witness: Y is validated against a listing that holds Y and exactly one
\* older device-mode sibling on Y's subnet, and is rejected naming it.
C3_Witness ==
    /\ ScannedInListing
    /\ Cardinality(OlderOnSubnet(params, gnpList)) = 1
    /\ \E X \in OlderOnSubnet(params, gnpList) :
          /\ X.DeviceMode # ""
          /\ validation.ErrorReason = "DeviceModeSubnetAlreadyInUse"
          /\ validation.ErrorMessage[3] = X.Name

\* C8: when no call fails, validateGKENetworkParamSet returns the verdict of
\* the first failing check in the order VPC empty, VPC missing (never fetched in
\* shared-VPC mode), neither device mode nor ranges, a range missing from the
\* subnet (the first in list order is named), both device mode and ranges, the
\* default VPC with device mode, an older sibling on the subnet; else valid.
C8_FirstMissingRange ==
    LET rn == params.PodIPv4Ranges.RangeNames
        missing == {i \in 1..Len(rn) : rn[i] \notin subnet.SecondaryIpRanges}
    IN  IF missing = {} THEN ""
        ELSE rn[CHOOSE i \in missing : \A j \in missing : i <= j]

C8_Reason ==
    IF ~VPCSet THEN "VPCNotFound"
    ELSE IF ~onXPN /\ network # "found" THEN "VPCNotFound"
    ELSE IF ~DeviceModeSet /\ ~PodRangesNonEmpty THEN "SecondaryRangeAndDeviceModeUnspecified"
    ELSE IF PodRangesNonEmpty /\ ~DeviceModeSet /\ C8_FirstMissingRange # ""
         THEN "SecondaryRangeNotFound"
    ELSE IF PodRangesNonEmpty /\ DeviceModeSet THEN "DeviceModeCantBeUsedWithSecondaryRange"
    ELSE IF DeviceModeSet /\ params.VPC = networkURL THEN "DeviceModeCantUseDefaultVPC"
    ELSE IF DeviceModeSet /\ OlderOnSubnet(params, gnpList) # {}
         THEN "DeviceModeSubnetAlreadyInUse"
    ELSE ""

NoCallFailed == network # "transportErr" /\ networkURL # "parseErr" /\ listed # "err"

C8_CloudCheckOrder ==
    Returned("validateGKENetworkParamSet") /\ NoCallFailed =>
        /\ err = ""
        /\ validation # NilValidation
        /\ onXPN => network = "uncalled"
        /\ validation.IsValid <=> C8_Reason = ""
        /\ validation.ErrorReason = C8_Reason
        /\ C8_Reason = "SecondaryRangeNotFound" =>
              validation.ErrorMessage[2] = C8_FirstMissingRange

\* C8 witness: in shared-VPC mode a device-mode parameter set passes the VPC
\* checks without a network fetch and is rejected by the last check.
C8_Witness ==
    /\ Returned("validateGKENetworkParamSet")
    /\ onXPN /\ network = "uncalled"
    /\ validation.ErrorReason = "DeviceModeSubnetAlreadyInUse"

\* C9: the verdict of the device-mode subnet scan, message included, is the
\* same for every order of the same listing.
C9_ListingOrderIrrelevant ==
    Returned("validateGKENetworkParamSet") /\ listed = "ok" =>
        \A l \in Orderings(Range(gnpList)) : scanGNPList(params, l, 1) = validation

\* C6 as stated: for a Device network the verdict is DeviceModeMissing when
\* deviceMode is empty and valid when it is set, whatever the other fields.
C6_AsStated ==
    Returned("crossValidateNetworkAndGnp") /\ networkType = "Device" =>
        IF DeviceModeSet THEN validation.IsValid
        ELSE ~validation.IsValid /\ validation.ErrorReason = "DeviceModeMissing"

\* C6 amended: for a Device network and a parameter set without
\* networkAttachment the verdict is DeviceModeMissing when deviceMode is empty
\* and valid when it is set, whatever vpc, vpcSubnet and podRanges are; with
\* networkAttachment set the verdict is NetworkAttachmentUnsupported.
C6_DeviceRule ==
    Returned("crossValidateNetworkAndGnp") /\ networkType = "Device" =>
        IF AttachmentSet
        THEN ~validation.IsValid /\ validation.ErrorReason = "NetworkAttachmentUnsupported"
        ELSE IF DeviceModeSet THEN validation.IsValid
        ELSE ~validation.IsValid /\ validation.ErrorReason = "DeviceModeMissing"

\* C6 witness: a Device network and a parameter set with an attachment and no
\* device mode: the attachment rule answers, not the Device rule.
C6_Witness ==
    /\ Returned("crossValidateNetworkAndGnp") /\ networkType = "Device"
    /\ AttachmentSet /\ ~DeviceModeSet
    /\ validation.ErrorReason = "NetworkAttachmentUnsupported"

\* C7: for a Layer3 network the verdict is L3SecondaryMissing exactly when vpc
\* and vpcSubnet are set and podRanges is absent or empty, and valid otherwise;
\* for any other network type a parameter set with networkAttachment yields
\* NetworkAttachmentUnsupported.
C7_L3AndAttachmentRule ==
    Returned("crossValidateNetworkAndGnp") =>
        /\ networkType = "L3" =>
              IF VPCSet /\ SubnetSet /\ ~PodRangesNonEmpty
              THEN ~validation.IsValid /\ validation.ErrorReason = "L3SecondaryMissing"
              ELSE validation.IsValid
        /\ networkType # "L3" /\ AttachmentSet =>
              ~validation.IsValid /\ validation.ErrorReason = "NetworkAttachmentUnsupported"

\* C7 witness: a Layer3 network accepts a parameter set with an attachment,
\* a VPC and no subnet or ranges.
C7_Witness ==
    /\ Returned("crossValidateNetworkAndGnp") /\ networkType = "L3"
    /\ AttachmentSet /\ VPCSet /\ ~SubnetSet /\ ~PodRangesNonEmpty
    /\ validation.IsValid

\* The range names of the default parameter set, none when it is missing or
\* has no list.
DefaultRangeNames == Range(defaultGNP.gnp.PodIPv4Ranges.RangeNames)
LabelIsNew == node.ok /\ node.v # "" /\ node.v \notin DefaultRangeNames

\* C10 as stated: nonDefaultParamsPodRanges is true iff the node's label is
\* present, non-empty and not among the default parameter set's range names,
\* whatever that list is (absent and empty included).
C10_AsStated ==
    Returned("nonDefaultParamsPodRanges") => (hasNew <=> LabelIsNew)

\* C10 amended: nonDefaultParamsPodRanges is true iff the default parameter
\* set is found and has a non-empty range list and the node's label is present,
\* non-empty and not in that list; when the default parameter set is missing or
\* its list is absent or empty the result is false whatever the label.
C10_NewPodRange ==
    Returned("nonDefaultParamsPodRanges") =>
        (hasNew <=> (defaultGNP.err = "" /\ DefaultRangeNames # {} /\ LabelIsNew))

\* C10 witness: the label names a range and the default parameter set has an
\* empty range list: the result is false.
C10_Witness ==
    /\ Returned("nonDefaultParamsPodRanges")
    /\ defaultGNP.err = "" /\ defaultGNP.gnp.PodIPv4Ranges.ptr = "set"
    /\ DefaultRangeNames = {}
    /\ node.ok /\ node.v = "r1"
    /\ ~hasNew

\* The form projects/<project>/regions/<region>/networkAttachments/<name>, each
\* of the three segments being la, lb, lc >= 1 slash-free tokens, and nothing
\* before or after it.
WellFormedAttachment(s) ==
    \E la, lb \in 1..Len(s) :
        LET lc == Len(s) - 8 - la - lb
        IN  /\ lc >= 1
            /\ s[1] = "projects" /\ s[2] = "/"
            /\ \A i \in 3..(2 + la) : s[i] # "/"
            /\ s[3 + la] = "/" /\ s[4 + la] = "regions" /\ s[5 + la] = "/"
            /\ \A i \in (6 + la)..(5 + la + lb) : s[i] # "/"
            /\ s[6 + la + lb] = "/" /\ s[7 + la + lb] = "networkAttachments"
            /\ s[8 + la + lb] = "/"
            /\ \A i \in (9 + la + lb)..Len(s) : s[i] # "/"

\* C5: validateNetworkAttachment returns valid exactly for the strings of the
\* form projects/<project>/regions/<region>/networkAttachments/<name>, and
\* NetworkAttachmentInvalid for every other string.
C5_AttachmentFormat ==
    Returned("validateNetworkAttachment") =>
        IF WellFormedAttachment(netAttachment)
        THEN validation.IsValid
        ELSE ~validation.IsValid /\ validation.ErrorReason = "NetworkAttachmentInvalid"

\* C4: once the collection has stopped changing and every parameter set has
\* been validated against a listing of all of them, at most one parameter set
\* with deviceMode per vpcSubnet is reported valid.
C4_EventualExclusivity ==
    (pc = "idle" /\ \A g \in store : fresh[g.Name]) =>
        \A g, h \in store :
            (/\ g.DeviceMode # "" /\ h.DeviceMode # ""
             /\ g.VPCSubnet = h.VPCSubnet
             /\ status[g.Name] = "True" /\ status[h.Name] = "True")
            => g = h

\* C13: validateGKENetworkParamSet returns either a verdict or an error, never
\* both and never neither.  The default network and the listing of parameter
\* sets are consulted only for a parameter set with deviceMode; one without
\* deviceMode gets a verdict and no error, the verdict is neither
\* DeviceModeCantUseDefaultVPC nor DeviceModeSubnetAlreadyInUse, and no other
\* parameter set has been read to reach it.
C13_VerdictOrError ==
    Returned("validateGKENetworkParamSet") =>
        /\ (err = "") # (validation = NilValidation)
        /\ (networkURL # "uncalled" \/ listed # "uncalled") => DeviceModeSet
        /\ ~DeviceModeSet =>
              /\ err = ""
              /\ validation # NilValidation
              /\ validation.ErrorReason \notin
                    {"DeviceModeCantUseDefaultVPC", "DeviceModeSubnetAlreadyInUse"}
              /\ listed = "uncalled"
              /\ gnpList = <<>>

\* A parameter set without deviceMode, created after the earliest time (so an
\* older one on its subnet can exist), is found valid.
C13_Witness ==
    /\ Returned("validateGKENetworkParamSet")
    /\ ~DeviceModeSet
    /\ PodRangesNonEmpty
    /\ params.VPC = "v1"
    /\ params.CreationTimestamp = MaxTime
    /\ validation.IsValid
    /\ err = ""

\* How often the name n occurs in the list l.
Occurrences(l, n) == Cardinality({i \in DOMAIN l : l[i] = n})

SameMultiset(x, y) == \A n \in RangeNames : Occurrences(x, n) = Occurrences(y, n)

LacksRanges(p) == p.PodIPv4Ranges.ptr = "nil" \/ p.PodIPv4Ranges.RangeNames = <<>>

\* C11: samePodIPv4Ranges is true exactly when both parameter sets lack ranges
\* (no PodIPv4Ranges, or an empty list), or both have ranges and every name
\* occurs as often in one list as in the other, in whatever order.  It is
\* reflexive and symmetric; <<r1, r2>> and <<r2, r1>> are the same, <<r1, r2>>
\* and <<r1>> are not.
C11_SameRanges ==
    Returned("samePodIPv4Ranges") =>
        LET x == params.PodIPv4Ranges.RangeNames
            y == originalParams.PodIPv4Ranges.RangeNames
        IN  /\ same <=> IF LacksRanges(params) \/ LacksRanges(originalParams)
                         THEN LacksRanges(params) /\ LacksRanges(originalParams)
                         ELSE SameMultiset(x, y)
            /\ params = originalParams => same
            /\ same <=> samePodIPv4Ranges(originalParams, params)
            /\ (~LacksRanges(params) /\ x = <<"r1", "r2">>
                    /\ ~LacksRanges(originalParams) /\ y = <<"r2", "r1">>) => same
            /\ (~LacksRanges(params) /\ x = <<"r1", "r2">>
                    /\ ~LacksRanges(originalParams) /\ y = <<"r1">>) => ~same

\* Two lists of one length holding the same names, one name more often in the
\* first than in the second, are told apart.
C11_Witness ==
    /\ Returned("samePodIPv4Ranges")
    /\ params.PodIPv4Ranges.RangeNames = <<"r1", "r2", "r1">>
    /\ originalParams.PodIPv4Ranges.RangeNames = <<"r2", "r1", "r2">>
    /\ ~same

\* C12: toCondition depends on the verdict alone, for both kinds of verdict.
\* A valid verdict gives status True, the fixed reason of its kind (GNPReady
\* for a gnpValidation, GNPParamsReady for a gnpNetworkCrossValidation) and no
\* message, whatever reason and message the verdict carries; an invalid one
\* gives status False with the reason and message of the verdict; the type is
\* the fixed type of the kind in both cases.
C12_ConditionOfVerdict ==
    \A kind \in {"gnpValidation", "gnpNetworkCrossValidation"} :
        (op = kind \o ".toCondition" /\ pc = "done") =>
            /\ condition.Type = IF kind = "gnpValidation"
                                THEN "GKENetworkParamSetStatusReady"
                                ELSE "NetworkConditionStatusParamsReady"
            /\ validation.IsValid =>
                  /\ condition.Status = "True"
                  /\ condition.Reason = IF kind = "gnpValidation"
                                        THEN "GNPReady" ELSE "GNPParamsReady"
                  /\ condition.Message = <<>>
            /\ ~validation.IsValid =>
                  /\ condition.Status = "False"
                  /\ condition.Reason = validation.ErrorReason
                  /\ condition.Message = validation.ErrorMessage

\* A valid gnpValidation that carries a reason and a message has been converted.
C12_Witness ==
    /\ Returned("gnpValidation.toCondition")
    /\ validation.IsValid
    /\ validation.ErrorReason = "SubnetNotFound"
    /\ validation.ErrorMessage = <<"subnet not specified">>
    /\ condition.Status = "True"

====
